---- MODULE Spec2Model ----
(***************************************************************************)
(* Model of ensembles.py: the parallel dispatcher (interpolate_variable),  *)
(* the file-level worker (interpolate_variable_worker) and the aggregator  *)
(* (load_winteravg) with their helpers.                                    *)
(*                                                                         *)
(* File names are sequences of one-character strings, so that endswith,    *)
(* os.path.splitext and str.split are computed as Python computes them.    *)
(* A path is the sequence of its components (os.path.join appends one).    *)
(***************************************************************************)
EXTENDS Integers, Sequences, FiniteSets, TLC

VARIABLES
    \* ---- dispatcher (interpolate_variable) ----
    srcs,        \* source files on disk: set of [exp, name, fault]
    outs,        \* output .npy files on disk: function path -> content
    pc,          \* "idle", "select", "map", "raised", "done"
    force,       \* the run's force flag
    exps,        \* the run's experiment list
    cpus,        \* the run's worker count
    expIdx,      \* position of the for-loop over experiments
    ncnpy,       \* the batch selected for the current experiment
    todo,        \* indices of ncnpy not yet handed to a worker
    failedSeen,  \* a worker of the current batch has raised
    workerCalls, \* worker invocations in the current run
    selected,    \* files selected for processing in the current run
    lastJob,     \* the unit of work of the latest worker invocation
    prev,        \* the latest finished run: [ok, exps]
    changed,     \* a source file changed since the latest finished run
    rerun,       \* the current run repeats a successful run, force = FALSE
    \* ---- aggregator (load_winteravg) ----
    adir,        \* data_path, as the symbols of the string
    nloc,        \* number of target locations of the per-file arrays
    npys,        \* per-file arrays on disk: experiment -> file name -> rows
    cache,       \* winter.npz on disk: experiment -> <<>> or <<bundle>>
    ret,         \* what the latest call returned: experiment -> bundle
    acall,       \* the latest call: [exps, force, ok]
    npLoads,     \* np.load of a per-file array, counted in the latest call
    npzWrites,   \* np.savez of winter.npz, counted in the latest call
    filePaths,   \* file_paths of the latest recomputation, per experiment
    \* ---- worker (interpolate_variable_worker), one invocation ----
    wpc,         \* "start", "loaded", "normalized", "cropped", "saved", "raised"
    wfile,       \* the source file: [readable, kind, rank, lat, lon]
    wlocs,       \* args['locations']: sequence of <<latitude, longitude>>
    wgrid,       \* the locals lats, lons, var, times
    wcrop,       \* the locals bb, latlons, var of the cropping block
    wout         \* the array saved at args['npy'], <<>> before

dvars == <<srcs, outs, pc, force, exps, cpus, expIdx, ncnpy, todo, failedSeen,
           workerCalls, selected, lastJob, prev, changed, rerun>>

avars == <<adir, nloc, npys, cache, ret, acall, npLoads, npzWrites, filePaths>>

wvars == <<wpc, wfile, wlocs, wgrid, wcrop, wout>>

vars == <<dvars, avars, wvars>>

\* what an operation of one component leaves alone: the other components
notDispatch == <<avars, wvars>>
notAgg == <<dvars, wvars>>
notWorker == <<dvars, avars>>

\* ------------------------------------------------------------------ bounds

\* At most this many source files exist over all experiments.
MaxFiles == 2

\* ------------------------------------------------------------- characters

ExtNc == <<".", "n", "c">>
ExtNc4 == <<".", "n", "c", "4">>
ExtNpy == <<".", "n", "p", "y">>

NameA_nc == <<"a">> \o ExtNc
NameA_nc4 == <<"a">> \o ExtNc4
NameDot_nc == ExtNc
NameA_txt == <<"a", ".", "t", "x", "t">>

\* The file names a source directory may hold.
SourceNames == {NameA_nc, NameA_nc4, NameDot_nc, NameA_txt}

Experiments == {"e1", "e2"}

\* The experiment lists a run may be given.
ExperimentLists == {<<"e1">>, <<"e1", "e2">>}

\* The stages of the worker that can raise; "none": the file is processed.
Stages == <<"load", "reshape", "crop", "interp">>
Faults == {"none", "load", "reshape", "crop", "interp"}

\* ---------------------------------------------------------- path helpers

\* str.endswith(suffix)
EndsWith(s, suf) ==
    /\ Len(s) >= Len(suf)
    /\ SubSeq(s, Len(s) - Len(suf) + 1, Len(s)) = suf

\* f.endswith(('.nc', '.nc4'))
IsNetcdf(f) == EndsWith(f, ExtNc) \/ EndsWith(f, ExtNc4)

\* str.rfind('.') on a base name, 1-based, 0 when there is no dot
RFindDot(s) ==
    LET dots == {i \in 1..Len(s) : s[i] = "."}
    IN  IF dots = {} THEN 0 ELSE CHOOSE i \in dots : \A j \in dots : j <= i

\* os.path.splitext(name)[0]: the dot that starts the extension is the last
\* one, unless only dots precede it (leading dots belong to the root).
SplitextRoot(s) ==
    LET d == RFindDot(s)
    IN  IF d > 0 /\ \E k \in 1..(d - 1) : s[k] # "."
        THEN SubSeq(s, 1, d - 1)
        ELSE s

\* os.path.join(dir, name)
Join(dir, name) == Append(dir, name)

\* os.path.join(source_path, project, experiment)
ExperimentPath(e) == <<"src", "proj", e>>

\* os.path.join(out_path, project, experiment, splitext(ncfile)[0] + '.npy')
NpyFile(e, ncfile) == Join(<<"out", "proj", e>>, SplitextRoot(ncfile) \o ExtNpy)

\* os.path.exists(npy)
Exists(p) == p \in DOMAIN outs

\* the filter of the list comprehension ncnpy
ShouldProcessAlways(f, exists) == TRUE

ShouldProcess(f, exists) == f \/ ~exists

\* all orders in which os.listdir may return the set S
Orderings(S) ==
    {s \in [1..Cardinality(S) -> S] : \A i, j \in DOMAIN s : i # j => s[i] # s[j]}

\* the sub-sequence of s of the positions in keep, ascending
RECURSIVE Pick(_, _, _)
Pick(s, keep, i) ==
    IF i > Len(s) THEN <<>>
    ELSE (IF i \in keep THEN <<s[i]>> ELSE <<>>) \o Pick(s, keep, i + 1)

\* sorted(np.unique(column))
RECURSIVE SortedSeq(_)
SortedSeq(S) ==
    IF S = {} THEN <<>>
    ELSE LET lo == CHOOSE x \in S : \A y \in S : x <= y
         IN  <<lo>> \o SortedSeq(S \ {lo})

\* netcdf_files of an experiment, for one listing order
NetcdfFiles(lst) == Pick(lst, {i \in DOMAIN lst : IsNetcdf(lst[i])}, 1)

\* zip(netcdf_files, npyfiles) filtered: the batch of the experiment
Batch(e, lst, f) ==
    LET nc == NetcdfFiles(lst)
        keep == {i \in DOMAIN nc : ShouldProcess(f, Exists(NpyFile(e, nc[i])))}
        sel == Pick(nc, keep, 1)
    IN  [i \in DOMAIN sel |->
            [id |-> i - 1,
             npy |-> NpyFile(e, sel[i]),
             netcdf |-> Join(ExperimentPath(e), sel[i])]]

\* what a source file holds, by its path
SourceAt(path) == CHOOSE s \in srcs : Join(ExperimentPath(s.exp), s.name) = path

\* ------------------------------------------------------------- the worker

\* a try block of the worker: its except clause prints and re-raises
StageRaisesSwallowInterp(stage, fault) == fault = stage /\ stage # "interp"

StageRaises(stage, fault) == fault = stage

\* interpolate_variable_worker(args): TRUE when the invocation raises
WorkerRaises(job) ==
    \E k \in DOMAIN Stages : StageRaises(Stages[k], SourceAt(job.netcdf).fault)

\* np.save(args['npy'], interpolated): the file system after a worker's save
Saved(job) == (job.npy :> job.netcdf) @@ outs

\* ---------------------------------------------------------- the dispatcher

NoJob == [id |-> -1, npy |-> <<>>, netcdf |-> <<>>]

DispatchStart ==
    /\ srcs = {}
    /\ outs = <<>>
    /\ pc = "idle"
    /\ force = FALSE
    /\ exps = <<>>
    /\ cpus = 1
    /\ expIdx = 1
    /\ ncnpy = <<>>
    /\ todo = {}
    /\ failedSeen = FALSE
    /\ workerCalls = 0
    /\ selected = 0
    /\ lastJob = NoJob
    /\ prev = [ok |-> FALSE, exps |-> <<>>]
    /\ changed = FALSE
    /\ rerun = FALSE

\* the for-loop moves to experiment i, or the function returns
LoopTo(i) ==
    /\ expIdx' = i
    /\ pc' = IF i > Len(exps) THEN "done" ELSE "select"
    /\ prev' = IF i > Len(exps) THEN [ok |-> TRUE, exps |-> exps] ELSE prev
    /\ changed' = IF i > Len(exps) THEN FALSE ELSE changed

\* the exception leaves interpolate_variable
Raise ==
    /\ pc' = "raised"
    /\ prev' = [ok |-> FALSE, exps |-> exps]
    /\ UNCHANGED <<expIdx, changed>>

\* a call interpolate_variable(..., experiments = es, force = f, cpus = c)
StartRun(es, f, c) ==
    /\ pc \in {"idle", "done", "raised"}
    /\ force' = f
    /\ exps' = es
    /\ cpus' = c
    /\ expIdx' = 1
    /\ pc' = "select"
    /\ ncnpy' = <<>>
    /\ todo' = {}
    /\ failedSeen' = FALSE
    /\ workerCalls' = 0
    /\ selected' = 0
    /\ lastJob' = NoJob
    /\ rerun' = (prev.ok /\ prev.exps = es /\ ~f /\ ~changed)
    /\ UNCHANGED <<srcs, outs, prev, changed>>
    /\ UNCHANGED notDispatch

\* one iteration of the for-loop up to the dispatch: list, filter, select
Select ==
    /\ pc = "select"
    /\ LET e == exps[expIdx]
           listing == {s.name : s \in {x \in srcs : x.exp = e}}
       IN  \E lst \in Orderings(listing) :
             LET batch == Batch(e, lst, force)
             IN  /\ ncnpy' = batch
                 /\ todo' = DOMAIN batch
                 /\ selected' = selected + Len(batch)
                 /\ IF Len(batch) = 0
                    THEN LoopTo(expIdx + 1)
                    ELSE /\ pc' = "map"
                         /\ UNCHANGED <<expIdx, prev, changed>>
    /\ UNCHANGED <<srcs, outs, force, exps, cpus, failedSeen, workerCalls,
                   lastJob, rerun>>
    /\ UNCHANGED notDispatch

\* map(interpolate_variable_worker, jobs): the next job, in order; an
\* exception ends the map and the function at once
WorkerSerial ==
    /\ pc = "map"
    /\ cpus < 2
    /\ todo # {}
    /\ LET i == CHOOSE k \in todo : \A j \in todo : k <= j
           job == ncnpy[i]
       IN  /\ lastJob' = job
           /\ workerCalls' = workerCalls + 1
           /\ todo' = todo \ {i}
           /\ IF WorkerRaises(job)
              THEN /\ failedSeen' = TRUE
                   /\ Raise
                   /\ UNCHANGED outs
              ELSE /\ outs' = Saved(job)
                   /\ UNCHANGED failedSeen
                   /\ IF todo = {i}
                      THEN LoopTo(expIdx + 1)
                      ELSE UNCHANGED <<pc, expIdx, prev, changed>>
    /\ UNCHANGED <<srcs, force, exps, cpus, ncnpy, selected, rerun>>
    /\ UNCHANGED notDispatch

\* multiprocessing.Pool(cpus).map: a pool process takes any job not yet taken
WorkerPool(i) ==
    /\ pc = "map"
    /\ cpus >= 2
    /\ i \in todo
    /\ LET job == ncnpy[i]
       IN  /\ lastJob' = job
           /\ workerCalls' = workerCalls + 1
           /\ todo' = todo \ {i}
           /\ IF WorkerRaises(job)
              THEN /\ failedSeen' = TRUE
                   /\ UNCHANGED outs
              ELSE /\ outs' = Saved(job)
                   /\ UNCHANGED failedSeen
    /\ UNCHANGED <<srcs, pc, force, exps, cpus, expIdx, ncnpy, selected, prev,
                   changed, rerun>>
    /\ UNCHANGED notDispatch

\* Pool.map returns once every job is done and none raised
PoolReturn ==
    /\ pc = "map"
    /\ cpus >= 2
    /\ todo = {}
    /\ ~failedSeen
    /\ LoopTo(expIdx + 1)
    /\ UNCHANGED <<srcs, outs, force, exps, cpus, ncnpy, todo, failedSeen,
                   workerCalls, selected, lastJob, rerun>>
    /\ UNCHANGED notDispatch

\* Pool.map re-raises a worker's exception as soon as it is recorded; the
\* jobs not yet taken die with the pool
PoolRaise ==
    /\ pc = "map"
    /\ cpus >= 2
    /\ failedSeen
    /\ Raise
    /\ todo' = {}
    /\ UNCHANGED <<srcs, outs, force, exps, cpus, ncnpy, failedSeen,
                   workerCalls, selected, lastJob, rerun>>
    /\ UNCHANGED notDispatch

\* between two runs a new source file appears in an experiment directory
EnvAddSource(s) ==
    /\ pc \in {"idle", "done", "raised"}
    /\ Cardinality(srcs) < MaxFiles
    /\ \A a \in srcs : ~(a.exp = s.exp /\ a.name = s.name)
    /\ s.fault # "none" => \A a \in srcs : a.fault = "none"
    /\ srcs' = srcs \cup {s}
    /\ changed' = TRUE
    /\ UNCHANGED <<outs, pc, force, exps, cpus, expIdx, ncnpy, todo, failedSeen,
                   workerCalls, selected, lastJob, prev, rerun>>
    /\ UNCHANGED notDispatch

DispatchNext ==
    \/ \E es \in ExperimentLists, f \in BOOLEAN, c \in {1, 2} : StartRun(es, f, c)
    \/ Select
    \/ WorkerSerial
    \/ \E i \in DOMAIN ncnpy : WorkerPool(i)
    \/ PoolReturn
    \/ PoolRaise
    \/ \E s \in [exp : Experiments, name : SourceNames, fault : Faults] : EnvAddSource(s)

\* =================================================================== worker

\* At most this many target locations.
MaxLocs == 2

\* Number of timesteps of the source file.
MaxTimes == 2

\* Coordinate values of the 1D axes of a source grid, and of the targets.
GridLats == {0, 10, 20}
GridLons == {0, 10, 350}
TargetLats == {0, 5, 10}
TargetLons == {-10, 5}

\* An array: its shape and its elements in C (row-major) order.
Array(shape, flat) == [shape |-> shape, flat |-> flat]

\* a 2D latitude of shape (A, B) with lat2d[a, b] = lat[a] (curvilinear file)
Lat2D(lat, lon) ==
    Array(<<Len(lat), Len(lon)>>,
          [k \in 1..(Len(lat) * Len(lon)) |-> lat[((k - 1) \div Len(lon)) + 1]])

\* a 2D longitude of shape (A, B) with lon2d[a, b] = lon[b] (curvilinear file)
Lon2D(lat, lon) ==
    Array(<<Len(lat), Len(lon)>>,
          [k \in 1..(Len(lat) * Len(lon)) |-> lon[((k - 1) % Len(lon)) + 1]])

\* a 2D latitude of shape (A, B) of a grid that is no product of two axes:
\* lat2d[a, b] = lat[a] + b
Lat2DSkew(lat, lon) ==
    Array(<<Len(lat), Len(lon)>>,
          [k \in 1..(Len(lat) * Len(lon)) |->
              lat[((k - 1) \div Len(lon)) + 1] + ((k - 1) % Len(lon))])

\* its 2D longitude: lon2d[a, b] = lon[b] + a
Lon2DSkew(lat, lon) ==
    Array(<<Len(lat), Len(lon)>>,
          [k \in 1..(Len(lat) * Len(lon)) |->
              lon[((k - 1) % Len(lon)) + 1] + ((k - 1) \div Len(lon))])

\* the variable [time, lat, lon] (rank 3) or [time, height = 1, lat, lon]
\* (rank 4); the value of a cell is the cell itself, <<t, a, b>>
SourceVar(rank, A, B) ==
    Array(IF rank = 3 THEN <<MaxTimes, A, B>> ELSE <<MaxTimes, 1, A, B>>,
          [k \in 1..(MaxTimes * A * B) |->
              <<((k - 1) \div (A * B)) + 1,
                (((k - 1) % (A * B)) \div B) + 1,
                ((k - 1) % B) + 1>>])

\* ncf.variables[...][:] of the four variables
LoadedGrid(file) ==
    [lats |-> IF file.kind = "rect" THEN Array(<<Len(file.lat)>>, file.lat)
              ELSE IF file.kind = "curv" THEN Lat2D(file.lat, file.lon)
              ELSE Lat2DSkew(file.lat, file.lon),
     lons |-> IF file.kind = "rect" THEN Array(<<Len(file.lon)>>, file.lon)
              ELSE IF file.kind = "curv" THEN Lon2D(file.lat, file.lon)
              ELSE Lon2DSkew(file.lat, file.lon),
     var |-> SourceVar(file.rank, Len(file.lat), Len(file.lon)),
     times |-> [t \in 1..MaxTimes |-> 31 * (t - 1)]]

\* lons[lons >= 180] = -(360 - lons[lons >= 180])
NormalizeLons(lons) ==
    Array(lons.shape,
          [k \in DOMAIN lons.flat |->
              IF lons.flat[k] >= 180 THEN -(360 - lons.flat[k]) ELSE lons.flat[k]])

\* np.meshgrid(x, y)[0]: shape (len(y), len(x)), X[i, j] = x[j]
MeshgridX(x, y) ==
    Array(<<Len(y.flat), Len(x.flat)>>,
          [k \in 1..(Len(y.flat) * Len(x.flat)) |-> x.flat[((k - 1) % Len(x.flat)) + 1]])

\* np.meshgrid(x, y)[1]: shape (len(y), len(x)), Y[i, j] = y[i]
MeshgridY(x, y) ==
    Array(<<Len(y.flat), Len(x.flat)>>,
          [k \in 1..(Len(y.flat) * Len(x.flat)) |-> y.flat[((k - 1) \div Len(x.flat)) + 1]])

\* ndarray.reshape(shape): the elements keep their C order
Reshape(a, shape) == Array(shape, a.flat)

\* the block "Correct for CMIP5 0 to 360 ... meshgrid ... reshape"
NormalizedGrid(g) ==
    LET lons == NormalizeLons(g.lons)
    IN  IF Len(g.lats.shape) < 2
        THEN LET lats2 == MeshgridX(g.lats, lons)
                 lons2 == MeshgridY(g.lats, lons)
             IN  [g EXCEPT !.lats = lats2,
                           !.lons = lons2,
                           !.var = IF Len(g.var.shape) > 3
                                   THEN Reshape(g.var, <<Len(g.times), lats2.shape[1],
                                                         lats2.shape[2]>>)
                                   ELSE g.var]
        ELSE [g EXCEPT !.lons = lons]

\* np.argmax(mask): 0-based position of the first TRUE, 0 when there is none
ArgMax(mask) ==
    IF \E i \in DOMAIN mask : mask[i]
    THEN (CHOOSE i \in DOMAIN mask : mask[i] /\ \A j \in 1..(i - 1) : ~mask[j]) - 1
    ELSE 0

\* list[i] of Python: 0-based, a negative i counts from the end
PyIndex(list, i) == IF i < 0 THEN list[Len(list) + i + 1] ELSE list[i + 1]

\* uniq[np.argmax(uniq >= lmin) - 1]
BoxLowInclusive(uniq, lmin) ==
    PyIndex(uniq, ArgMax([i \in DOMAIN uniq |-> uniq[i] > lmin]) - 1)

BoxLow(uniq, lmin) ==
    PyIndex(uniq, ArgMax([i \in DOMAIN uniq |-> uniq[i] >= lmin]) - 1)

\* uniq[np.argmax(uniq > lmax)]
BoxHigh(uniq, lmax) ==
    PyIndex(uniq, ArgMax([i \in DOMAIN uniq |-> uniq[i] > lmax]))

Range(seq) == {seq[i] : i \in DOMAIN seq}

SetMin(S) == CHOOSE x \in S : \A y \in S : x <= y

SetMax(S) == CHOOSE x \in S : \A y \in S : y <= x

\* one row of bb, for the coordinates `coords` and column `col` of locations
BoxOf(coords, locs, col) ==
    LET uniq == SortedSeq(Range(coords.flat))
        lmin == SetMin({locs[i][col] : i \in DOMAIN locs})
        lmax == SetMax({locs[i][col] : i \in DOMAIN locs})
    IN  <<BoxLow(uniq, lmin), BoxHigh(uniq, lmax)>>

\* the block "Crop out bounding box"
Cropped(g, locs) ==
    LET bb == <<BoxOf(g.lats, locs, 1), BoxOf(g.lons, locs, 2)>>
        n == Len(g.lats.flat)
        valid_locs == {k \in 1..n :
                         /\ g.lats.flat[k] <= bb[1][2] /\ g.lats.flat[k] >= bb[1][1]
                         /\ g.lons.flat[k] <= bb[2][2] /\ g.lons.flat[k] >= bb[2][1]}
        latlons == [k \in 1..n |-> <<g.lats.flat[k], g.lons.flat[k]>>]
        var == [t \in 1..Len(g.times) |-> SubSeq(g.var.flat, (t - 1) * n + 1, t * n)]
    IN  [bb |-> bb,
         flat_latlons |-> latlons,
         flat_var |-> var,
         latlons |-> Pick(latlons, valid_locs, 1),
         var |-> [t \in 1..Len(g.times) |-> Pick(var[t], valid_locs, 1)]]

\* twice the signed area of the triangle a, b, c
Cross(a, b, c) == (b[1] - a[1]) * (c[2] - a[2]) - (b[2] - a[2]) * (c[1] - a[1])

\* scipy.interpolate.griddata raises unless the points span a triangle
GriddataRaises(latlons) ==
    \A i, j, k \in DOMAIN latlons : Cross(latlons[i], latlons[j], latlons[k]) = 0

\* a target outside the convex hull of the points gets NaN
InHull(latlons, p) ==
    \E i, j, k \in DOMAIN latlons :
        LET a == latlons[i]
            b == latlons[j]
            c == latlons[k]
        IN  /\ Cross(a, b, c) > 0
            /\ Cross(a, b, p) >= 0
            /\ Cross(b, c, p) >= 0
            /\ Cross(c, a, p) >= 0

\* the array `interpolated`: per timestep the time and, per target, whether
\* the interpolated value is a number
Interpolated(g, c, locs) ==
    [t \in 1..Len(g.times) |->
        [time |-> g.times[t],
         isnan |-> [i \in DOMAIN locs |-> ~InHull(c.latlons, locs[i])]]]

NoGrid == [lats |-> Array(<<>>, <<>>), lons |-> Array(<<>>, <<>>),
           var |-> Array(<<>>, <<>>), times |-> <<>>]

NoCrop == [bb |-> <<>>, flat_latlons |-> <<>>, flat_var |-> <<>>,
           latlons |-> <<>>, var |-> <<>>]

WorkerStart ==
    /\ wpc = "start"
    /\ \E lat \in (SUBSET GridLats) \ {{}}, lon \in (SUBSET GridLons) \ {{}} :
          wfile \in [readable : BOOLEAN, kind : {"rect", "curv", "skew"}, rank : {3, 4},
                     lat : {SortedSeq(lat)}, lon : {SortedSeq(lon)}]
    /\ wlocs \in UNION {[1..n -> TargetLats \X TargetLons] : n \in 1..MaxLocs}
    /\ wgrid = NoGrid
    /\ wcrop = NoCrop
    /\ wout = <<>>

\* the first try block: open the file and read the four variables
WLoad ==
    /\ wpc = "start"
    /\ IF wfile.readable
       THEN wpc' = "loaded" /\ wgrid' = LoadedGrid(wfile)
       ELSE wpc' = "raised" /\ UNCHANGED wgrid
    /\ UNCHANGED <<wfile, wlocs, wcrop, wout>>
    /\ UNCHANGED notWorker

\* the second try block
WNormalize ==
    /\ wpc = "loaded"
    /\ wpc' = "normalized"
    /\ wgrid' = NormalizedGrid(wgrid)
    /\ UNCHANGED <<wfile, wlocs, wcrop, wout>>
    /\ UNCHANGED notWorker

\* the third try block
WCrop ==
    /\ wpc = "normalized"
    /\ wpc' = "cropped"
    /\ wcrop' = Cropped(wgrid, wlocs)
    /\ UNCHANGED <<wfile, wlocs, wgrid, wout>>
    /\ UNCHANGED notWorker

\* the fourth try block, then makedirs and np.save
WInterpolateSave ==
    /\ wpc = "cropped"
    /\ IF GriddataRaises(wcrop.latlons)
       THEN wpc' = "raised" /\ UNCHANGED wout
       ELSE wpc' = "saved" /\ wout' = Interpolated(wgrid, wcrop, wlocs)
    /\ UNCHANGED <<wfile, wlocs, wgrid, wcrop>>
    /\ UNCHANGED notWorker

\* =============================================================== aggregator

\* At most this many timesteps exist over the per-file arrays of experiment e1.
MaxRows == 2

\* Time offsets (days past 1949-12-01) a per-file array may hold:
\* 1949-12-01, 1950-01-01, 1950-03-01, 1950-04-01.
DayOffsets == {0, 31, 90, 121}

\* Per-file array names: variable_domain_gcm_experiment_member_rcm_version.npy
FileM1 == <<"tas", "_", "EUR", "_", "M1", "_", "h", "_", "r1", "_", "R1", "_", "v1.npy">>
FileM2 == <<"tas", "_", "EUR", "_", "M2", "_", "h", "_", "r1", "_", "R2", "_", "v1.npy">>
AggFileNames == {FileM1, FileM2}

\* The data_path arguments: one without, one with an underscore.
DataPaths == {<<"out">>, <<"my", "_", "out">>}

AggExperimentLists == {<<"e1">>, <<"e1", "e2">>, <<"e2", "e1">>}

\* ---- dates

IsLeap(y) == y % 4 = 0 /\ (y % 100 # 0 \/ y % 400 = 0)

DaysInMonth(y, m) ==
    IF m = 2 THEN (IF IsLeap(y) THEN 29 ELSE 28)
    ELSE IF m \in {4, 6, 9, 11} THEN 30 ELSE 31

\* datetime.date(y, m, 1) + timedelta(n), then set to the first of its month
RECURSIVE FirstOfMonth(_, _, _)
FirstOfMonth(y, m, n) ==
    IF n < DaysInMonth(y, m) THEN [year |-> y, month |-> m]
    ELSE FirstOfMonth(IF m = 12 THEN y + 1 ELSE y,
                      IF m = 12 THEN 1 ELSE m + 1,
                      n - DaysInMonth(y, m))

makedate(days) == FirstOfMonth(1949, 12, days)

makemonth(days) == makedate(days).month

makeyear(days) == makedate(days).year

\* ---- modelname

\* str.split('_'): the tokens of s, a token being the symbols between two "_"
RECURSIVE SplitFrom(_, _, _)
SplitFrom(s, i, tok) ==
    IF i > Len(s) THEN <<tok>>
    ELSE IF s[i] = "_" THEN <<tok>> \o SplitFrom(s, i + 1, <<>>)
    ELSE SplitFrom(s, i + 1, Append(tok, s[i]))

Split(s) == SplitFrom(s, 1, <<>>)

\* tokens[2:6:3]: the tokens at 0-based positions 2 and 5 that exist
Slice_2_6_3(tokens) ==
    (IF Len(tokens) >= 3 THEN <<tokens[3]>> ELSE <<>>)
        \o (IF Len(tokens) >= 6 THEN <<tokens[6]>> ELSE <<>>)

\* '_'.join(tokens)
RECURSIVE JoinUnderscore(_)
JoinUnderscore(tokens) ==
    IF Len(tokens) = 0 THEN <<>>
    ELSE IF Len(tokens) = 1 THEN tokens[1]
    ELSE tokens[1] \o <<"_">> \o JoinUnderscore(Tail(tokens))

modelname(path) == JoinUnderscore(Slice_2_6_3(Split(path)))

\* ---- the long table

\* os.path.join(data_path, experiment)
AggExperimentPath(e) == adir \o <<"/", e>>

\* a path glob.glob('%s/*.npy' % experiment_path) returns
GlobPath(e, name) == AggExperimentPath(e) \o <<"/">> \o name

\* the file name a globbed path ends with
BaseName(path) ==
    LET slashes == {i \in DOMAIN path : path[i] = "/"}
        last == CHOOSE i \in slashes : \A j \in slashes : j <= i
    IN  SubSeq(path, last + 1, Len(path))

RECURSIVE Flatten(_)
Flatten(ss) == IF Len(ss) = 0 THEN <<>> ELSE Head(ss) \o Flatten(Tail(ss))

\* transform_csv(data, model_id): for each location column, one row per timestep
transform_csv(data, model_id) ==
    Flatten([c \in 1..nloc |->
        [t \in DOMAIN data |->
            [year |-> makeyear(data[t].days),
             month |-> makemonth(data[t].days),
             loc |-> c - 1,
             mdl |-> model_id,
             temp |-> data[t].vals[c]]]])

\* the months of the filter "Delete months we don't care about"
WinterMonthsNoMarch == {1, 2, 12}

WinterMonths == {1, 2, 3, 12}

RECURSIVE SumTemp(_)
SumTemp(rows) == IF Len(rows) = 0 THEN 0 ELSE Head(rows).temp + SumTemp(Tail(rows))

\* np.mean(rows[:, ctemp]): the quotient sum / n, 0 / 0 being NaN
Mean(rows) == [sum |-> SumTemp(rows), n |-> Len(rows)]

\* the bundle dict(models = ..., years = ..., temps = ...) of one experiment
WinterBundle(e, file_paths) ==
    LET all == Flatten([k \in DOMAIN file_paths |->
                   transform_csv(npys[e][BaseName(file_paths[k])], k - 1)])
        data == SelectSeq(all, LAMBDA r : r.month \in WinterMonths)
        rows == {data[i] : i \in DOMAIN data}
        uniq_year == SortedSeq({r.year : r \in rows})
        uniq_mdl == SortedSeq({r.mdl : r \in rows})
        uniq_loc == SortedSeq({r.loc : r \in rows})
    IN  [models |-> [kind |-> "list",
                     items |-> [k \in DOMAIN file_paths |-> modelname(file_paths[k])]],
         years |-> uniq_year,
         temps |->
           [li \in DOMAIN uniq_loc |->
             LET l_data == SelectSeq(data, LAMBDA r : r.loc = uniq_loc[li])
             IN  [yi \in DOMAIN uniq_year |->
                   LET ly_data == SelectSeq(l_data, LAMBDA r : r.year = uniq_year[yi])
                   IN  [mi \in DOMAIN uniq_mdl |->
                         Mean(SelectSeq(ly_data, LAMBDA r : r.mdl = uniq_mdl[mi]))]]]]

\* np.savez then np.load: every entry comes back as an array
Savez(bundle) == [bundle EXCEPT !.models.kind = "ndarray"]

\* recomputing raises: np.vstack of no array (no file, or no location
\* column), np.vectorize on an array without rows
RecomputeRaises(e) ==
    \/ DOMAIN npys[e] = {}
    \/ \E f \in DOMAIN npys[e] : Len(npys[e][f]) = 0

\* the test "force or not os.path.exists(winter_path)"
CacheMissAlways(f, exists) == TRUE

CacheMiss(f, exists) == f \/ ~exists

\* one iteration of the for-loop of load_winteravg, on the state st
AggIteration(st, e, f, order) ==
    IF st.raised THEN st
    ELSE IF CacheMiss(f, st.cache[e] # <<>>)
    THEN IF RecomputeRaises(e)
         THEN [st EXCEPT !.raised = TRUE,
                         !.loads = @ + (IF \E k \in DOMAIN order : Len(npys[e][order[k]]) = 0
                                        THEN (CHOOSE k \in DOMAIN order :
                                                /\ Len(npys[e][order[k]]) = 0
                                                /\ \A j \in 1..(k - 1) : Len(npys[e][order[j]]) # 0)
                                        ELSE 0)]
         ELSE LET file_paths == [k \in DOMAIN order |-> GlobPath(e, order[k])]
                  bundle == WinterBundle(e, file_paths)
              IN  [st EXCEPT !.cache[e] = <<Savez(bundle)>>,
                             !.ret = (e :> bundle) @@ @,
                             !.loads = @ + Len(file_paths),
                             !.writes = @ + 1,
                             !.paths[e] = file_paths]
    ELSE [st EXCEPT !.ret = (e :> st.cache[e][1]) @@ @]

RECURSIVE AggLoop(_, _, _, _, _)
AggLoop(st, es, i, f, orders) ==
    IF i > Len(es) THEN st
    ELSE AggLoop(AggIteration(st, es[i], f, orders[es[i]]), es, i + 1, f, orders)

\* the per-file array of `name`: row k of the input holds the values
\* 2k, 2k + 1, ... at the locations 0, 1, ...
ArrayOf(rows, name) ==
    LET keep == {k \in DOMAIN rows : rows[k].file = name}
        idx == SortedSeq(keep)
    IN  [j \in DOMAIN idx |->
            [days |-> rows[idx[j]].days,
             vals |-> [c \in 1..nloc |-> 2 * idx[j] + (c - 1)]]]

AggStart ==
    /\ adir \in DataPaths
    /\ nloc \in {1, 2}
    /\ \E files \in SUBSET AggFileNames :
       \E n \in 0..MaxRows :
       \E rows \in [1..n -> [file : files, days : DayOffsets]] :
          \* the rows of FileM1 first: the order of rows of two files is immaterial
          /\ \A i, j \in 1..n : (i < j /\ rows[j].file = FileM1) => rows[i].file = FileM1
          /\ npys = [e \in {"e1", "e2"} |->
                    IF e = "e1"
                    THEN [name \in files |-> ArrayOf(rows, name)]
                    ELSE [name \in {FileM1} |->
                            <<[days |-> 31, vals |-> [c \in 1..nloc |-> 10 + c]]>>]]
    /\ cache = [e \in {"e1", "e2"} |-> <<>>]
    /\ ret = <<>>
    /\ acall = [exps |-> <<>>, force |-> FALSE, ok |-> FALSE]
    /\ npLoads = 0
    /\ npzWrites = 0
    /\ filePaths = [e \in {"e1", "e2"} |-> <<>>]

\* a call load_winteravg(data_path, es, force = f)
LoadWinteravg(es, f) ==
    \E o1 \in Orderings(DOMAIN npys["e1"]), o2 \in Orderings(DOMAIN npys["e2"]) :
    \E st \in {AggLoop([cache |-> cache, ret |-> <<>>, loads |-> 0, writes |-> 0,
                        paths |-> filePaths, raised |-> FALSE],
                       es, 1, f, [e \in {"e1", "e2"} |-> IF e = "e1" THEN o1 ELSE o2])} :
       /\ cache' = st.cache
       /\ ret' = IF st.raised THEN <<>> ELSE st.ret
       /\ acall' = [exps |-> es, force |-> f, ok |-> ~st.raised]
       /\ npLoads' = st.loads
       /\ npzWrites' = st.writes
       /\ filePaths' = st.paths
       /\ UNCHANGED <<adir, nloc, npys>>
       /\ UNCHANGED notAgg

AggNext == \E es \in AggExperimentLists, f \in BOOLEAN : LoadWinteravg(es, f)

\* ================================================================== claims

\* ---- the dispatcher

\* C1: a run that repeats a successfully completed run with the same
\* experiment list and force = FALSE, no source file having changed in
\* between, selects no file and invokes the worker zero times.
C1_IdempotentDispatch == rerun => (selected = 0 /\ workerCalls = 0)

\* the repeated run has returned, over an experiment that holds a source file
C1_Witness ==
    /\ rerun
    /\ pc = "done"
    /\ \E s \in srcs : s.exp = exps[1] /\ IsNetcdf(s.name)
    /\ outs # <<>>

\* C2: no two units of work of one batch have the same output path.
C2_DistinctOutputPaths ==
    \A i, j \in DOMAIN ncnpy : i # j => ncnpy[i].npy # ncnpy[j].npy

\* C3: without force, an output file that exists keeps its content.
C3_NoOverwrite ==
    [][~force' => \A p \in DOMAIN outs : p \in DOMAIN outs' /\ outs'[p] = outs[p]]_vars

\* C5: a worker whose file fails at a stage raises and writes nothing; the
\* failure ends the batch: the run never returns normally nor moves on to
\* another experiment and, in serial mode, starts no other unit of work.
C5_NoSwallowedError ==
    [][/\ (workerCalls' = workerCalls + 1 /\ SourceAt(lastJob'.netcdf).fault # "none")
          => /\ outs' = outs
             /\ failedSeen'
             /\ cpus < 2 => pc' = "raised"
       /\ failedSeen' => pc' \in {"map", "raised"}
       /\ (failedSeen /\ failedSeen' /\ cpus < 2)
          => (pc' = "raised" /\ workerCalls' = workerCalls /\ expIdx' = expIdx)
      ]_vars

\* a serial run has raised with a unit of work of its batch not started
C5_Witness == pc = "raised" /\ cpus < 2 /\ failedSeen /\ todo # {}

\* ---- the worker

\* the coordinate values of the source grid on axis a (1: latitude,
\* 2: longitude in the -180..180 convention)
GridValues(a) ==
    LET A == Len(wfile.lat)
        B == Len(wfile.lon)
        lat == {IF wfile.kind = "skew" THEN wfile.lat[i] + (j - 1) ELSE wfile.lat[i] :
                    i \in 1..A, j \in 1..B}
        lon == {IF wfile.kind = "skew" THEN wfile.lon[j] + (i - 1) ELSE wfile.lon[j] :
                    i \in 1..A, j \in 1..B}
    IN  IF a = 1 THEN lat ELSE {IF x >= 180 THEN x - 360 ELSE x : x \in lon}

\* the grid's points are the product of its latitudes and its longitudes
IsProductGrid == wfile.kind \in {"rect", "curv"}

TargetMin(a) == SetMin({wlocs[i][a] : i \in DOMAIN wlocs})

TargetMax(a) == SetMax({wlocs[i][a] : i \in DOMAIN wlocs})

\* the box on axis a is one grid step below the targets and one above
BoxIsPadded(a) ==
    /\ \E g \in GridValues(a) : g < TargetMin(a)
    /\ \E g \in GridValues(a) : g > TargetMax(a)
    /\ wcrop.bb[a][1] = SetMax({g \in GridValues(a) : g < TargetMin(a)})
    /\ wcrop.bb[a][2] = SetMin({g \in GridValues(a) : g > TargetMax(a)})

\* the cropped points reach beyond the targets on axis a, on both sides
CloudContainsTargets(a) ==
    /\ \E k \in DOMAIN wcrop.latlons : wcrop.latlons[k][a] < TargetMin(a)
    /\ \E k \in DOMAIN wcrop.latlons : wcrop.latlons[k][a] > TargetMax(a)

\* C6 as stated: whenever the targets lie within the grid's range, its
\* minimum and maximum included, the box is padded on each axis and the
\* cropped cloud strictly contains the target range.
C6_BoxWithinRange ==
    (wcrop # NoCrop
        /\ \A a \in {1, 2} : /\ SetMin(GridValues(a)) <= TargetMin(a)
                             /\ TargetMax(a) <= SetMax(GridValues(a)))
    => \A a \in {1, 2} : BoxIsPadded(a) /\ CloudContainsTargets(a)

StrictlyInside(a) ==
    /\ SetMin(GridValues(a)) < TargetMin(a)
    /\ TargetMax(a) < SetMax(GridValues(a))

\* C6 as amended: on each axis where the targets lie strictly inside the
\* grid's range the box is padded; when that is so on both axes of a grid
\* that is the product of its axes, the cropped cloud strictly contains the
\* target range.
C6_BoxStrictlyInside ==
    wcrop # NoCrop =>
        /\ \A a \in {1, 2} : StrictlyInside(a) => BoxIsPadded(a)
        /\ (IsProductGrid /\ \A a \in {1, 2} : StrictlyInside(a))
            => \A a \in {1, 2} : CloudContainsTargets(a)

\* the containment without the product-grid condition; it does not hold: on
\* a grid that is no product of its axes the cloud may miss the padding
SkewCloudContainsTargets ==
    (wcrop # NoCrop /\ \A a \in {1, 2} : StrictlyInside(a))
    => \A a \in {1, 2} : CloudContainsTargets(a)

\* the worker has saved for two targets strictly inside the grid's range,
\* one of them on a grid line
C6_Witness ==
    /\ wpc = "saved"
    /\ Len(wlocs) = 2
    /\ \A a \in {1, 2} : StrictlyInside(a)
    /\ TargetMax(1) \in GridValues(1)
    /\ TargetMin(1) < TargetMax(1)

\* C9: on a rectilinear grid the k-th flattened coordinate pair is the
\* coordinate of the cell whose value is the k-th flattened value, at every
\* timestep.
C9_CoordinatesAligned ==
    (wcrop # NoCrop /\ wfile.kind = "rect")
    => \A t \in DOMAIN wcrop.flat_var : \A k \in DOMAIN wcrop.flat_var[t] :
          LET cell == wcrop.flat_var[t][k]
          IN  /\ cell[1] = t
              /\ wcrop.flat_latlons[k][1] = wfile.lat[cell[2]]
              /\ wcrop.flat_latlons[k][2]
                   = (IF wfile.lon[cell[3]] >= 180 THEN wfile.lon[cell[3]] - 360
                      ELSE wfile.lon[cell[3]])

\* the same alignment, on a curvilinear grid (2D latitude and longitude)
CurvilinearAligned ==
    (wcrop # NoCrop /\ wfile.kind = "curv")
    => \A t \in DOMAIN wcrop.flat_var : \A k \in DOMAIN wcrop.flat_var[t] :
          LET cell == wcrop.flat_var[t][k]
          IN  /\ cell[1] = t
              /\ wcrop.flat_latlons[k][1] = wfile.lat[cell[2]]
              /\ wcrop.flat_latlons[k][2]
                   = (IF wfile.lon[cell[3]] >= 180 THEN wfile.lon[cell[3]] - 360
                      ELSE wfile.lon[cell[3]])

\* ---- the aggregator

\* the winter rows of the per-file arrays of e, file k being file_paths[k]:
\* [m: model id, t: timestep, c: location column]
WinterEntries(e) ==
    {w \in [m : 0..(Len(filePaths[e]) - 1), t : 1..MaxRows + 1, c : 1..nloc] :
        /\ w.t <= Len(npys[e][BaseName(filePaths[e][w.m + 1])])
        /\ makemonth(npys[e][BaseName(filePaths[e][w.m + 1])][w.t].days) \in {12, 1, 2, 3}}

EntryYear(e, w) == makeyear(npys[e][BaseName(filePaths[e][w.m + 1])][w.t].days)

EntryTemp(e, w) == npys[e][BaseName(filePaths[e][w.m + 1])][w.t].vals[w.c]

RECURSIVE EntrySum(_, _)
EntrySum(e, W) ==
    IF W = {} THEN 0
    ELSE LET w == CHOOSE x \in W : TRUE
         IN  EntryTemp(e, w) + EntrySum(e, W \ {w})

\* position of x in the ascending order of S
Rank(x, S) == Cardinality({y \in S : y <= x})

\* the cell is the arithmetic mean of the entries W, NaN when W is empty
IsMeanOf(cell, e, W) ==
    /\ (cell.n = 0) <=> (W = {})
    /\ cell.sum * Cardinality(W) = EntrySum(e, W) * cell.n

\* C7: every cube cell [l, y, m] is the mean of exactly the rows of that
\* location, year and model whose month is 12, 1, 2 or 3, NaN when there is
\* none; the axes are [location, year, model], the years ascending.
C7_AggregationCorrect ==
    \A e \in DOMAIN cache : cache[e] # <<>> =>
        LET b == cache[e][1]
            W == WinterEntries(e)
            years == {EntryYear(e, w) : w \in W}
            locs == {w.c - 1 : w \in W}
            mdls == {w.m : w \in W}
        IN  /\ Len(b.years) = Cardinality(years)
            /\ \A y \in years : b.years[Rank(y, years)] = y
            /\ Len(b.temps) = Cardinality(locs)
            /\ \A l \in locs :
                 /\ Len(b.temps[Rank(l, locs)]) = Cardinality(years)
                 /\ \A y \in years :
                      /\ Len(b.temps[Rank(l, locs)][Rank(y, years)]) = Cardinality(mdls)
                      /\ \A m \in mdls :
                           IsMeanOf(b.temps[Rank(l, locs)][Rank(y, years)][Rank(m, mdls)], e,
                                    {w \in W : w.c - 1 = l /\ EntryYear(e, w) = y /\ w.m = m})

\* the cube of e1 holds the mean 3 of the two values 2 and 4, and a row of
\* April was dropped or a second year gives a NaN cell
C7_Witness ==
    /\ cache # <<>>
    /\ cache["e1"] # <<>>
    /\ cache["e1"][1].temps # <<>>
    /\ cache["e1"][1].temps[1][1][1] = [sum |-> 6, n |-> 2]

\* C8: the name recorded for a per-file array is tokens 2 and 5 of its file
\* name, whatever the directory.
C8_ModelNameOfFileName ==
    \A e \in DOMAIN cache : cache[e] # <<>> =>
        \A k \in DOMAIN filePaths[e] :
            cache[e][1].models.items[k]
                = Split(BaseName(filePaths[e][k]))[3] \o <<"_">>
                    \o Split(BaseName(filePaths[e][k]))[6]

\* C10: the models list is as long as the model axis of the cube, and
\* cube[:, :, k] holds the means of the file models[k] names.
C10_ModelsAligned ==
    \A e \in DOMAIN cache : cache[e] # <<>> =>
        LET b == cache[e][1]
            W == WinterEntries(e)
        IN  \A li \in DOMAIN b.temps : \A yi \in DOMAIN b.temps[li] :
              /\ Len(b.temps[li][yi]) = Len(b.models.items)
              /\ \A k \in DOMAIN b.temps[li][yi] :
                   IsMeanOf(b.temps[li][yi][k], e,
                            {w \in W : /\ w.c = li
                                       /\ EntryYear(e, w) = b.years[yi]
                                       /\ w.m = k - 1})

\* C4: a call without force that repeats a call that returned gives the same
\* cube, models and years, loads no per-file array and does not rewrite
\* winter.npz; a call recomputes only under force or without the artifact.
C4_CacheHit ==
    [][/\ (acall.ok /\ acall'.exps = acall.exps /\ ~acall'.force)
          => /\ acall'.ok
             /\ DOMAIN ret' = DOMAIN ret
             /\ \A e \in DOMAIN ret :
                  /\ ret'[e].temps = ret[e].temps
                  /\ ret'[e].models.items = ret[e].models.items
                  /\ ret'[e].years = ret[e].years
             /\ npLoads' = 0
             /\ npzWrites' = 0
             /\ cache' = cache
       /\ (npLoads' > 0 \/ npzWrites' > 0)
          => (acall'.force \/ \E k \in DOMAIN acall'.exps : cache[acall'.exps[k]] = <<>>)
      ]_vars

\* a call without force has returned the cube of e1 from winter.npz
C4_Witness ==
    /\ acall.ok
    /\ ~acall.force
    /\ npLoads = 0
    /\ "e1" \in DOMAIN ret
    /\ ret["e1"].models.kind = "ndarray"
    /\ ret["e1"].temps # <<>>

\* ------------------------------------------------------- the specifications

DispatchIdle ==
    /\ srcs = {}
    /\ outs = <<>>
    /\ pc = "idle"
    /\ force = FALSE
    /\ exps = <<>>
    /\ cpus = 1
    /\ expIdx = 1
    /\ ncnpy = <<>>
    /\ todo = {}
    /\ failedSeen = FALSE
    /\ workerCalls = 0
    /\ selected = 0
    /\ lastJob = NoJob
    /\ prev = [ok |-> FALSE, exps |-> <<>>]
    /\ changed = FALSE
    /\ rerun = FALSE

AggIdle ==
    /\ adir = <<"out">>
    /\ nloc = 1
    /\ npys = <<>>
    /\ cache = <<>>
    /\ ret = <<>>
    /\ acall = [exps |-> <<>>, force |-> FALSE, ok |-> FALSE]
    /\ npLoads = 0
    /\ npzWrites = 0
    /\ filePaths = <<>>

WorkerIdle ==
    /\ wpc = "start"
    /\ wfile = [readable |-> FALSE, kind |-> "rect", rank |-> 3, lat |-> <<>>, lon |-> <<>>]
    /\ wlocs = <<>>
    /\ wgrid = NoGrid
    /\ wcrop = NoCrop
    /\ wout = <<>>

WorkerNext ==
    \/ WLoad
    \/ WNormalize
    \/ WCrop
    \/ WInterpolateSave

DispatchInit == DispatchStart /\ AggIdle /\ WorkerIdle

SpecDispatch == DispatchInit /\ [][DispatchNext]_vars

AggInit == AggStart /\ DispatchIdle /\ WorkerIdle

SpecAgg == AggInit /\ [][AggNext]_vars

WorkerInit == WorkerStart /\ DispatchIdle /\ AggIdle

SpecWorker == WorkerInit /\ [][WorkerNext]_vars

====
